---- MODULE Spec2Model ----
(***************************************************************************)
(* Model of the Terminal class of src/components/terminal/terminal.ts:     *)
(* the key handlers (Enter, ArrowUp, ArrowDown, Tab), command execution,   *)
(* tab completion and the deferred navigation of `cd <page>`.              *)
(*                                                                         *)
(* A JavaScript string is a sequence of symbols.  Text the user can type   *)
(* is spelled one character per symbol, so that trim, split, toLowerCase   *)
(* and startsWith work character by character; the fixed message texts of  *)
(* the program are single multi-character symbols.                         *)
(***************************************************************************)
EXTENDS Integers, Sequences, FiniteSets, TLC

VARIABLES
    history,       \* this.history
    historyIndex,  \* this.historyIndex
    currentPath,   \* this.currentPath
    inputValue,    \* this.input.value
    output,        \* the lines of this.output, oldest first
    timers,        \* targets of the pending setTimeout callbacks of handleCd
    fired,         \* the callbacks that ran, with the href they assigned
    lastKey,       \* e.key of the event handled last ("text": a text edit)
    lastValue,     \* the field text the last Enter or Tab handler read
    upRun,         \* ArrowUp presses in a row since the last Enter, -1: none
    downRun        \* ArrowDown presses in a row that followed those

vars == <<history, historyIndex, currentPath, inputValue, output,
          timers, fired, lastKey, lastValue, upRun, downRun>>

\* ------------------------------------------------------------------ bounds
MaxCommands == 1   \* commands executed in a run of Spec
MaxHistory == 3    \* commands executed in a run of SpecNav
MaxOutput == 4     \* Tab lists matches only below this many log lines
MaxRun == 5        \* the run counters stop counting here

\* ------------------------------------------------------- string primitives
Whitespace == {" ", "\t"}

ToLower ==
    ("A" :> "a") @@ ("B" :> "b") @@ ("C" :> "c") @@ ("D" :> "d") @@
    ("E" :> "e") @@ ("F" :> "f") @@ ("G" :> "g") @@ ("H" :> "h") @@
    ("I" :> "i") @@ ("J" :> "j") @@ ("K" :> "k") @@ ("L" :> "l") @@
    ("M" :> "m") @@ ("N" :> "n") @@ ("O" :> "o") @@ ("P" :> "p") @@
    ("Q" :> "q") @@ ("R" :> "r") @@ ("S" :> "s") @@ ("T" :> "t") @@
    ("U" :> "u") @@ ("V" :> "v") @@ ("W" :> "w") @@ ("X" :> "x") @@
    ("Y" :> "y") @@ ("Z" :> "z")

\* String.prototype.toLowerCase
toLowerCase(s) ==
    [i \in 1..Len(s) |-> IF s[i] \in DOMAIN ToLower THEN ToLower[s[i]] ELSE s[i]]

RECURSIVE TrimStart(_)
TrimStart(s) ==
    IF s /= <<>> /\ Head(s) \in Whitespace THEN TrimStart(Tail(s)) ELSE s

RECURSIVE TrimEnd(_)
TrimEnd(s) ==
    IF s /= <<>> /\ s[Len(s)] \in Whitespace
    THEN TrimEnd(SubSeq(s, 1, Len(s) - 1))
    ELSE s

\* trimming the start only
trimStartOnly(s) == TrimStart(s)

\* String.prototype.trim
trim(s) == TrimEnd(TrimStart(s))

\* String.prototype.split(' '): the tokens between single spaces, empty
\* tokens included; the empty string splits into one empty token.
RECURSIVE SplitFrom(_, _)
SplitFrom(s, cur) ==
    IF s = <<>> THEN <<cur>>
    ELSE IF Head(s) = " " THEN <<cur>> \o SplitFrom(Tail(s), <<>>)
    ELSE SplitFrom(Tail(s), Append(cur, Head(s)))

split(s) == SplitFrom(s, <<>>)

\* String.prototype.startsWith
startsWith(s, prefix) ==
    /\ Len(prefix) <= Len(s)
    /\ SubSeq(s, 1, Len(prefix)) = prefix

\* Array.prototype.slice(1)
slice1(a) == SubSeq(a, 2, Len(a))

\* Array.prototype.join(sep)
RECURSIVE join(_, _)
join(a, sep) ==
    IF a = <<>> THEN <<>>
    ELSE IF Len(a) = 1 THEN a[1]
    ELSE a[1] \o sep \o join(Tail(a), sep)

\* ------------------------------------------------------------- route table
about      == <<"a","b","o","u","t">>
resume     == <<"r","e","s","u","m","e">>
projects   == <<"p","r","o","j","e","c","t","s">>
contact    == <<"c","o","n","t","a","c","t">>
blog       == <<"b","l","o","g">>
tools      == <<"t","o","o","l","s">>
templates  == <<"t","e","m","p","l","a","t","e","s">>
privacy    == <<"p","r","i","v","a","c","y">>
terms      == <<"t","e","r","m","s">>
home       == <<"h","o","m","e">>
index      == <<"i","n","d","e","x">>
cheesecake == <<"c","h","e","e","s","e","c","a","k","e">>

\* Object.keys(this.pages): the own keys, in insertion order
pageKeys ==
    <<about, resume, projects, contact, blog, tools, templates, privacy,
      terms, home, index, cheesecake>>

PageKeySet == {pageKeys[i] : i \in 1..Len(pageKeys)}

rootPath == <<"/">>

\* the value the pages literal gives to an own key
pagePath(key) ==
    IF key \in {home, index} THEN rootPath ELSE <<"/">> \o key

\* Names a plain object literal inherits from Object.prototype that are
\* spelled in lower case, with the text the inherited value converts to.
constructorName == <<"c","o","n","s","t","r","u","c","t","o","r">>
protoName       == <<"_","_","p","r","o","t","o","_","_">>

inheritedValue(key) ==
    IF key = constructorName THEN <<"function Object() { [native code] }">>
    ELSE <<"[object Object]">>

InheritedKeySet == {constructorName, protoName}

undefined == <<"undefined">>

\* this.pages[key]: own property, else the prototype chain, else undefined
pagesLookup(key) ==
    IF key \in PageKeySet THEN pagePath(key)
    ELSE IF key \in InheritedKeySet THEN inheritedValue(key)
    ELSE undefined

\* truthiness of this.pages[key]
pagesTruthy(key) == pagesLookup(key) /= undefined /\ pagesLookup(key) /= <<>>

NotHomeAlias(p) == p /= home /\ p /= index

\* a listing that keeps the two home aliases
listedPagesAll == pageKeys

\* Object.keys(this.pages).filter(p => p !== 'home' && p !== 'index')
listedPages == SelectSeq(pageKeys, NotHomeAlias)

\* ------------------------------------------------------------ output log
Line(text, className) == [text |-> text, className |-> className]

\* addOutput(text, className = '')
addOutput(out, text, className) == Append(out, Line(text, className))

promptText == <<"visitor@marlonjr:~$ ">>

\* the echo without its "command" tag
echoLineUntagged(command) == Line(promptText \o command, "")

\* the echoed line of executeCommand
echoLine(command) == Line(promptText \o command, "command")

welcomeLines ==
    << Line(<<"Welcome to Marlon Ausby Junior's website!">>, ""),
       Line(<<"Type \"help\" to see available commands.">>, ""),
       Line(<<>>, "") >>

\* ---------------------------------------------------------------- commands
\* The part of the session a command handler reads and writes.
Session == [history |-> history, output |-> output,
            currentPath |-> currentPath, timers |-> timers]

emit(s, text) == [s EXCEPT !.output = addOutput(@, text, "")]

\* addPrompt(): the prompt is a fixture of the input line; nothing to add
addPrompt(s) == s

availablePages == join(listedPages, <<",", " ">>)

\* a schedule that cancels what was pending
setTimeoutReplacing(pending, target) == <<target>>

\* setTimeout(() => { window.location.href = this.pages[target] }, 300):
\* one more pending callback, which keeps the target it was created with
setTimeout(pending, target) == Append(pending, target)

\* a bare cd that prints the current path instead of `~`
handleCdPrintsPath(args, s) ==
    IF Len(args) = 0
    THEN addPrompt(emit([s EXCEPT !.currentPath = rootPath], rootPath))
    ELSE LET target == toLowerCase(args[1]) IN
         IF pagesTruthy(target)
         THEN [emit(s, <<"Navigating to ">> \o target \o <<"...">>)
                 EXCEPT !.timers = setTimeout(@, target)]
         ELSE addPrompt(
                emit(emit(s, <<"cd: no such page: ">> \o target),
                     <<"Available pages: ">> \o availablePages))

\* a cd that records the page it navigates to as the current path
handleCdTracksPath(args, s) ==
    IF Len(args) = 0
    THEN addPrompt(emit([s EXCEPT !.currentPath = rootPath], <<"~">>))
    ELSE LET target == toLowerCase(args[1]) IN
         IF pagesTruthy(target)
         THEN [emit(s, <<"Navigating to ">> \o target \o <<"...">>)
                 EXCEPT !.timers = setTimeout(@, target),
                        !.currentPath = pagesLookup(target)]
         ELSE addPrompt(
                emit(emit(s, <<"cd: no such page: ">> \o target),
                     <<"Available pages: ">> \o availablePages))

handleCd(args, s) ==
    IF Len(args) = 0
    THEN addPrompt(emit([s EXCEPT !.currentPath = rootPath], <<"~">>))
    ELSE LET target == toLowerCase(args[1]) IN
         IF pagesTruthy(target)
         THEN [emit(s, <<"Navigating to ">> \o target \o <<"...">>)
                 EXCEPT !.timers = setTimeout(@, target)]
         ELSE addPrompt(
                emit(emit(s, <<"cd: no such page: ">> \o target),
                     <<"Available pages: ">> \o availablePages))

handleLs(s) == addPrompt(emit(s, join(listedPages, <<" ", " ">>)))

handleHelp(s) ==
    LET s1 == emit(s,  <<"Available commands:">>)
        s2 == emit(s1, <<"  cd <page>     - Navigate to a page (e.g., cd resume)">>)
        s3 == emit(s2, <<"  ls            - List available pages">>)
        s4 == emit(s3, <<"  pwd           - Show current location">>)
        s5 == emit(s4, <<"  clear         - Clear terminal output">>)
        s6 == emit(s5, <<"  help          - Show this help message">>)
        s7 == emit(s6, <<>>)
        s8 == emit(s7, <<"Available pages:">>)
        s9 == emit(s8, <<" ", " ">> \o availablePages)
    IN  addPrompt(s9)

\* a clear that leaves the log alone
handleClearNoop(s) == addPrompt(s)

handleClear(s) == addPrompt([s EXCEPT !.output = <<>>])

handlePwd(s) == addPrompt(emit(s, s.currentPath))

\* a cat without operand that prints the hint before the complaint
handleCatHintFirst(args, s) ==
    IF Len(args) = 0
    THEN addPrompt(emit(emit(s, <<"Try: cat <filename>">>),
                        <<"cat: missing file operand">>))
    ELSE addPrompt(emit(s, <<"cat: ">> \o args[1]
                           \o <<": No such file or directory">>))

handleCat(args, s) ==
    IF Len(args) = 0
    THEN addPrompt(emit(emit(s, <<"cat: missing file operand">>),
                        <<"Try: cat <filename>">>))
    ELSE addPrompt(emit(s, <<"cat: ">> \o args[1]
                           \o <<": No such file or directory">>))

commandNotFound(cmd, s) ==
    addPrompt(emit(s, <<"Command not found: ">> \o cmd
                      \o <<". Type \"help\" for available commands.">>))

\* executeCommand past its early return: history, echo, dispatch
runCommand(command, s) ==
    LET s1 == [s EXCEPT !.history = Append(@, command),
                        !.output = Append(@, echoLine(command))]
        parts == split(command)
        cmd == toLowerCase(parts[1])
        args == slice1(parts)
    IN  CASE cmd = <<"c","d">> -> handleCd(args, s1)
          [] cmd = <<"l","s">> -> handleLs(s1)
          [] cmd = <<"h","e","l","p">> -> handleHelp(s1)
          [] cmd = <<"c","l","e","a","r">> -> handleClear(s1)
          [] cmd = <<"p","w","d">> -> handlePwd(s1)
          [] cmd = <<"c","a","t">> -> handleCat(args, s1)
          [] OTHER -> commandNotFound(cmd, s1)

\* executeCommand without the early return on an empty command
executeCommandUnguarded(command, s) == runCommand(command, s)

executeCommand(command, s) ==
    IF command = <<>> THEN addPrompt(s) ELSE runCommand(command, s)

\* ---------------------------------------------------------- tab completion
\* the command name and argument handleTabCompletion reads from the field
tabParts(value) == split(trim(value))
tabCommand(value) == tabParts(value)[1]
tabArg(value) ==
    IF Len(tabParts(value)) >= 2 THEN tabParts(value)[2] ELSE <<>>

\* completion over the listed pages only
tabMatchesListed(arg) ==
    SelectSeq(listedPages, LAMBDA page : startsWith(page, toLowerCase(arg)))

\* Object.keys(this.pages).filter(page => page.startsWith(arg.toLowerCase()))
tabMatches(arg) ==
    SelectSeq(pageKeys, LAMBDA page : startsWith(page, toLowerCase(arg)))

\* completion that does not ask for an argument
tabAppliesNoArg(value) == tabCommand(value) = <<"c","d">>

\* completion that accepts the command name in any case
tabAppliesAnyCase(value) ==
    toLowerCase(tabCommand(value)) = <<"c","d">> /\ tabArg(value) /= <<>>

tabApplies(value) == tabCommand(value) = <<"c","d">> /\ tabArg(value) /= <<>>

\* -------------------------------------------------------------------- Init
Init ==
    /\ history = <<>>
    /\ historyIndex = -1
    /\ currentPath = rootPath
    /\ inputValue = <<>>
    /\ output = welcomeLines
    /\ timers = <<>>
    /\ fired = <<>>
    /\ lastKey = "none"
    /\ lastValue = <<>>
    /\ upRun = 0
    /\ downRun = 0

\* the page is still loaded: no scheduled navigation has replaced it
Loaded == fired = <<>>

\* ------------------------------------------------------------------ inputs
\* Texts the visitor leaves in the input field.
Inputs ==
    { <<" "," ">>,
      <<"l","s">>,
      <<" ","P","w","d","\t">>,
      <<"h","e","l","p">>,
      <<"c","l","e","a","r">>,
      <<"c","d">>,
      <<"c","d"," ","H","o","m","e">>,
      <<"c","d"," ">> \o constructorName,
      <<"c","d"," "," ","a","b","o","u","t">>,
      <<"c","d"," ","p","r","o">>,
      <<"C","D"," ","P","r","o">>,
      <<"c","d"," ","t">>,
      <<"c","a","t">>,
      <<"c","a","t"," ","a"," ","b">>,
      <<"F","o","o">> }

\* The texts of SpecNav, which follows longer histories of fewer commands.
NavInputs ==
    { <<" ","P","w","d","\t">>,
      <<"c","l","e","a","r">>,
      <<"c","d"," ","H","o","m","e">>,
      <<"c","d"," ","p","r","o">> }

\* this.history[i], a JavaScript array read at a 0-based index
historyAt(h, i) == IF 0 <= i /\ i < Len(h) THEN h[i + 1] ELSE undefined

\* ----------------------------------------------------------------- actions
\* The visitor edits the text of the input field (default key handling and
\* the cosmetic handleInput).
TypeText(text) ==
    /\ Loaded
    /\ text /= inputValue
    /\ inputValue' = text
    /\ lastKey' = "text"
    /\ lastValue' = <<>>
    /\ upRun' = -1
    /\ downRun' = 0
    /\ UNCHANGED <<history, historyIndex, currentPath, output, timers, fired>>

\* handleKeyDown, e.key === 'Enter'
KeyEnter(limit) ==
    /\ Loaded
    /\ trim(inputValue) /= <<>> => Len(history) < limit
    /\ LET s == executeCommand(trim(inputValue), Session) IN
        /\ history' = s.history
        /\ output' = s.output
        /\ currentPath' = s.currentPath
        /\ timers' = s.timers
    /\ inputValue' = <<>>
    /\ historyIndex' = -1
    /\ lastKey' = "Enter"
    /\ lastValue' = inputValue
    /\ upRun' = 0
    /\ downRun' = 0
    /\ UNCHANGED fired

\* the history index after the ArrowUp branch
arrowUpIndex(h, i) ==
    IF Len(h) > 0
    THEN LET i1 == IF i = -1 THEN Len(h) ELSE i IN
         IF i1 > 0 THEN i1 - 1 ELSE i1
    ELSE i

\* ArrowUp reading the entry before the decrement
arrowUpValueStale(h, i, value) ==
    IF Len(h) > 0
    THEN LET i1 == IF i = -1 THEN Len(h) ELSE i IN
         IF i1 > 0 THEN historyAt(h, i1) ELSE value
    ELSE value

\* the input field after the ArrowUp branch
arrowUpValue(h, i, value) ==
    IF Len(h) > 0
    THEN LET i1 == IF i = -1 THEN Len(h) ELSE i IN
         IF i1 > 0 THEN historyAt(h, i1 - 1) ELSE value
    ELSE value

\* handleKeyDown, e.key === 'ArrowUp'
KeyArrowUp ==
    /\ Loaded
    /\ historyIndex' = arrowUpIndex(history, historyIndex)
    /\ inputValue' = arrowUpValue(history, historyIndex, inputValue)
    /\ lastKey' = "ArrowUp"
    /\ lastValue' = <<>>
    /\ upRun' = IF upRun < 0 \/ downRun > 0 THEN -1
                ELSE IF upRun < MaxRun THEN upRun + 1 ELSE MaxRun
    /\ downRun' = 0
    /\ UNCHANGED <<history, currentPath, output, timers, fired>>

\* ArrowDown without the reset to the sentinel past the newest entry
arrowDownIndexNoReset(h, i) == IF i >= 0 THEN i + 1 ELSE i

\* ArrowDown that resets one step too late
arrowDownIndexPastEnd(h, i) ==
    IF i >= 0
    THEN IF i + 1 > Len(h) THEN -1 ELSE i + 1
    ELSE i

\* the history index after the ArrowDown branch
arrowDownIndex(h, i) ==
    IF i >= 0
    THEN IF i + 1 >= Len(h) THEN -1 ELSE i + 1
    ELSE i

\* ArrowDown leaving the field alone when it steps past the newest entry
arrowDownValueKept(h, i, value) ==
    IF i >= 0
    THEN IF i + 1 >= Len(h) THEN value ELSE historyAt(h, i + 1)
    ELSE value

\* the input field after the ArrowDown branch
arrowDownValue(h, i, value) ==
    IF i >= 0
    THEN IF i + 1 >= Len(h) THEN <<>> ELSE historyAt(h, i + 1)
    ELSE value

\* handleKeyDown, e.key === 'ArrowDown'
KeyArrowDown ==
    /\ Loaded
    /\ historyIndex' = arrowDownIndex(history, historyIndex)
    /\ inputValue' = arrowDownValue(history, historyIndex, inputValue)
    /\ lastKey' = "ArrowDown"
    /\ lastValue' = <<>>
    /\ upRun' = upRun
    /\ downRun' = IF upRun < 0 THEN 0
                  ELSE IF downRun < MaxRun THEN downRun + 1 ELSE MaxRun
    /\ UNCHANGED <<history, currentPath, output, timers, fired>>

\* completion that writes the destination path of the match
tabValuePath(value) ==
    IF tabApplies(value) /\ Len(tabMatches(tabArg(value))) = 1
    THEN <<"c","d"," ">> \o pagePath(tabMatches(tabArg(value))[1])
    ELSE value

\* the input field after handleTabCompletion
tabValue(value) ==
    IF tabApplies(value) /\ Len(tabMatches(tabArg(value))) = 1
    THEN <<"c","d"," ">> \o tabMatches(tabArg(value))[1]
    ELSE value

\* the match list joined like the page listing of cd
tabOutputCommaJoined(value, out) ==
    IF tabApplies(value) /\ Len(tabMatches(tabArg(value))) > 1
    THEN addPrompt(addOutput(out, join(tabMatches(tabArg(value)), <<",", " ">>), ""))
    ELSE out

\* the output log after handleTabCompletion
tabOutput(value, out) ==
    IF tabApplies(value) /\ Len(tabMatches(tabArg(value))) > 1
    THEN addPrompt(addOutput(out, join(tabMatches(tabArg(value)), <<" "," ">>), ""))
    ELSE out

\* handleKeyDown, e.key === 'Tab'
KeyTab ==
    /\ Loaded
    /\ tabOutput(inputValue, output) /= output => Len(output) < MaxOutput
    /\ inputValue' = tabValue(inputValue)
    /\ output' = tabOutput(inputValue, output)
    /\ lastKey' = "Tab"
    /\ lastValue' = inputValue
    /\ upRun' = -1
    /\ downRun' = 0
    /\ UNCHANGED <<history, historyIndex, currentPath, timers, fired>>

\* The oldest pending timeout of handleCd elapses: the callback assigns
\* window.location.href and the page is replaced.
TimerFire ==
    /\ Loaded
    /\ timers /= <<>>
    /\ fired' = Append(fired, [target |-> Head(timers),
                               href |-> pagesLookup(Head(timers))])
    /\ timers' = Tail(timers)
    /\ UNCHANGED <<history, historyIndex, currentPath, inputValue, output,
                   lastKey, lastValue, upRun, downRun>>

Next ==
    \/ \E text \in Inputs : TypeText(text)
    \/ KeyEnter(MaxCommands)
    \/ KeyArrowUp
    \/ KeyArrowDown
    \/ KeyTab
    \/ TimerFire

Spec == Init /\ [][Next]_vars

NextNav ==
    \/ \E text \in NavInputs : TypeText(text)
    \/ KeyEnter(MaxHistory)
    \/ KeyArrowUp
    \/ KeyArrowDown
    \/ KeyTab
    \/ TimerFire

SpecNav == Init /\ [][NextNav]_vars

\* ------------------------------------------------- vocabulary of the claims
\* the step just taken is the handler of the given key
KeyStep(key) == Loaded /\ lastKey' = key /\ fired' = fired /\ vars' /= vars

IsBlank(text) == \A i \in 1..Len(text) : text[i] \in Whitespace

\* the positions of raw that hold no whitespace
NonBlankAt(raw) == {i \in 1..Len(raw) : raw[i] \notin Whitespace}

\* raw without its leading and trailing whitespace: from its first to its
\* last character that is no whitespace
Trimmed(raw) ==
    IF NonBlankAt(raw) = {} THEN <<>>
    ELSE LET first == CHOOSE i \in NonBlankAt(raw) : \A j \in NonBlankAt(raw) : i <= j
             last  == CHOOSE i \in NonBlankAt(raw) : \A j \in NonBlankAt(raw) : j <= i
         IN  SubSeq(raw, first, last)

cmdName(command) == toLowerCase(split(command)[1])
cmdArgs(command) == slice1(split(command))
cdName == <<"c","d">>
clearName == <<"c","l","e","a","r">>

\* a cd command with a first argument, and that argument lowercased
IsCdTo(command) == cmdName(command) = cdName /\ Len(cmdArgs(command)) >= 1
cdTarget(command) == toLowerCase(cmdArgs(command)[1])
IsKnownCd(command) == IsCdTo(command) /\ cdTarget(command) \in PageKeySet

EchoCount(out) == Cardinality({i \in 1..Len(out) : out[i].className = "command"})

\* the log out extended by the given texts as plain lines
Plain(texts) == [i \in 1..Len(texts) |-> Line(texts[i], "")]

\* the targets of the successful cd commands of a history, oldest first
RECURSIVE KnownCdTargets(_)
KnownCdTargets(h) ==
    IF h = <<>> THEN <<>>
    ELSE IF IsKnownCd(Head(h)) THEN <<cdTarget(Head(h))>> \o KnownCdTargets(Tail(h))
    ELSE KnownCdTargets(Tail(h))

firedTargets == [i \in 1..Len(fired) |-> fired[i].target]

\* ------------------------------------------------------------------ claims

\* C1: in every reachable state historyIndex is the sentinel -1 or an
\* integer in 0..history.length, the upper end included.
HistoryCursorInRange ==
    historyIndex = -1 \/ historyIndex \in 0..Len(history)

C1Witness ==
    /\ Len(history) >= 2
    /\ historyIndex = Len(history) - 1
    /\ lastKey = "ArrowDown"

\* C2: after n >= 1 commands, the k-th ArrowUp in a row since the last
\* Enter shows the k-th newest entry (cursor n-k) for k <= n, every further
\* one keeps the oldest entry and cursor 0; with an empty history ArrowUp
\* leaves the field and the cursor as Enter left them.
ArrowUpRecallsNewestFirst ==
    (upRun >= 1 /\ downRun = 0) =>
        LET n == Len(history)
            k == upRun
        IN  IF n = 0 THEN historyIndex = -1 /\ inputValue = <<>>
            ELSE IF k <= n
                 THEN historyIndex = n - k /\ inputValue = history[n - k + 1]
                 ELSE historyIndex = 0 /\ inputValue = history[1]

C2Witness ==
    /\ Len(history) >= 3
    /\ upRun > Len(history)
    /\ downRun = 0
    /\ history[1] /= history[2]

\* the cursor a run of upRun ArrowUps after Enter ends at
CursorAfterUps == 
    IF upRun = 0 \/ Len(history) = 0 THEN -1
    ELSE IF upRun >= Len(history) THEN 0
    ELSE Len(history) - upRun

\* C3: ArrowDown at cursor i /= -1 shows history[i+1] and moves the cursor
\* there when that entry exists, else clears the field and resets the cursor
\* to the sentinel; at the sentinel it changes nothing.  Hence the j-th
\* ArrowDown after a run of ArrowUps shows the entry j places newer than the
\* one the run ended at, and the empty field once past the newest.
ArrowDownStep ==
    KeyStep("ArrowDown") =>
        IF historyIndex = -1
        THEN UNCHANGED <<history, historyIndex, inputValue, output,
                         currentPath, timers>>
        ELSE IF historyIndex + 1 < Len(history)
             THEN /\ historyIndex' = historyIndex + 1
                  /\ inputValue' = history[historyIndex + 2]
             ELSE /\ historyIndex' = -1
                  /\ inputValue' = <<>>

ArrowDownRun ==
    (upRun >= 0 /\ downRun >= 1) =>
        IF CursorAfterUps /= -1 /\ CursorAfterUps + downRun < Len(history)
        THEN /\ historyIndex = CursorAfterUps + downRun
             /\ inputValue = history[CursorAfterUps + downRun + 1]
        ELSE /\ historyIndex = -1
             /\ inputValue = <<>>

ArrowDownTowardNewest == [][ArrowDownStep]_vars /\ []ArrowDownRun

C3Witness ==
    /\ Len(history) >= 3
    /\ upRun >= Len(history)
    /\ downRun = Len(history)
    /\ historyIndex = -1
    /\ inputValue = <<>>

\* the log after the echo of the command the Enter step executes
EchoAppended ==
    Append(output, [text |-> <<"visitor@marlonjr:~$ ">> \o Trimmed(inputValue),
                    className |-> "command"])

\* C4 as stated: every non-empty trimmed input, `clear` included, adds
\* exactly one history entry, the trimmed text, and exactly one echoed line
\* `visitor@marlonjr:~$ <text>` to the output log.
EveryCommandEchoedOnce ==
    [][(KeyStep("Enter") /\ ~IsBlank(inputValue)) =>
          /\ history' = Append(history, Trimmed(inputValue))
          /\ Len(output') > Len(output)
          /\ SubSeq(output', 1, Len(output) + 1) = EchoAppended
          /\ EchoCount(output') = EchoCount(output) + 1]_vars

\* C4 amended: every non-empty trimmed input adds exactly one history
\* entry, the trimmed text; every command other than `clear` adds exactly
\* one echoed line to the log, while `clear` erases its own echo with the
\* rest of the log.
CommandEchoedOnceUnlessClear ==
    [][(KeyStep("Enter") /\ ~IsBlank(inputValue)) =>
          /\ history' = Append(history, Trimmed(inputValue))
          /\ IF cmdName(Trimmed(inputValue)) = clearName
             THEN output' = <<>>
             ELSE /\ Len(output') > Len(output)
                  /\ SubSeq(output', 1, Len(output) + 1) = EchoAppended
                  /\ EchoCount(output') = EchoCount(output) + 1]_vars

C4Witness ==
    /\ lastKey = "Enter"
    /\ ~IsBlank(lastValue)
    /\ lastValue /= Trimmed(lastValue)
    /\ history = <<Trimmed(lastValue)>>
    /\ Len(output) = Len(welcomeLines) + 2
    /\ output[Len(output) - 1].text = <<"visitor@marlonjr:~$ ">> \o Trimmed(lastValue)
    /\ output[Len(output) - 1].className = "command"

\* C5: Enter on an empty or whitespace-only field leaves the history and
\* the output log unchanged, schedules no navigation and leaves currentPath
\* unchanged.
BlankEnterChangesNothing ==
    [][(KeyStep("Enter") /\ IsBlank(inputValue)) =>
          UNCHANGED <<history, output, timers, currentPath>>]_vars

C5Witness ==
    /\ lastKey = "Enter"
    /\ lastValue /= <<>>
    /\ IsBlank(lastValue)
    /\ history = <<>>
    /\ output = welcomeLines

\* C6: `cd <target>` with a route-table key emits `Navigating to
\* <target>...` and schedules one navigation to that key's destination; at
\* all times the navigations issued, fired ones first, are exactly those of
\* the successful `cd <known-page>` commands of the history, in order, and
\* each fired one went to the destination of its own target.
NavigationPerKnownCd ==
    /\ [][(KeyStep("Enter") /\ IsKnownCd(Trimmed(inputValue))) =>
             /\ output' = EchoAppended \o
                    Plain(<< <<"Navigating to ">>
                             \o cdTarget(Trimmed(inputValue)) \o <<"...">> >>)
             /\ timers' = Append(timers, cdTarget(Trimmed(inputValue)))]_vars
    /\ [](/\ firedTargets \o timers = KnownCdTargets(history)
          /\ \A i \in 1..Len(fired) :
                /\ fired[i].target \in PageKeySet
                /\ fired[i].href = pagePath(fired[i].target))

\* C7: `cd <target>` whose lowercased target is not a route-table key emits
\* `cd: no such page: <target>` and the listing of the keys other than home
\* and index, and schedules no navigation.
UnknownCdTargetRejected ==
    [][(KeyStep("Enter") /\ IsCdTo(Trimmed(inputValue))
          /\ cdTarget(Trimmed(inputValue)) \notin PageKeySet) =>
          /\ output' = EchoAppended \o
                 Plain(<< <<"cd: no such page: ">> \o cdTarget(Trimmed(inputValue)),
                          <<"Available pages: ">> \o join(listedPages, <<",", " ">>) >>)
          /\ timers' = timers]_vars

\* the pending navigations all come from route-table keys
PendingKnown ==
    /\ Loaded
    /\ timers /= <<>>
    /\ \A i \in 1..Len(timers) : timers[i] \in PageKeySet

\* C8 as stated: while the navigation of a successful cd is pending, no key
\* event is handled, no history entry or output line is added and no second
\* navigation is scheduled.
InteractionDeferredWhilePending ==
    [][PendingKnown =>
          /\ \A key \in {"Enter", "ArrowUp", "ArrowDown", "Tab"} : ~KeyStep(key)
          /\ history' = history
          /\ output' = output
          /\ Len(timers') <= Len(timers)]_vars

\* C8 amended: a successful cd does not defer interaction; key events are
\* still handled while its navigation is pending, and they leave that
\* navigation as it is: it stays scheduled, in its place and for its own
\* target, until it is the one that fires.
PendingNavigationUndisturbed ==
    [][\A i \in 1..Len(timers) :
          IF fired' = fired
          THEN i <= Len(timers') /\ timers'[i] = timers[i]
          ELSE IF i = 1
               THEN /\ Len(fired') = Len(fired) + 1
                    /\ fired'[Len(fired')].target = timers[1]
               ELSE timers'[i - 1] = timers[i]]_vars

C8Witness ==
    /\ PendingKnown
    /\ Len(history) >= 2
    /\ IsKnownCd(history[1])
    /\ ~IsCdTo(history[2])
    /\ lastKey = "ArrowUp"
    /\ inputValue = history[Len(history)]

\* C9 as stated: `clear` committed with Enter leaves the log empty and
\* leaves the history and the history cursor exactly as they were.
ClearLeavesHistoryAlone ==
    [][(KeyStep("Enter") /\ ~IsBlank(inputValue)
          /\ cmdName(Trimmed(inputValue)) = clearName) =>
          /\ output' = <<>>
          /\ history' = history
          /\ historyIndex' = historyIndex]_vars

\* C9 amended: `clear` committed with Enter leaves the log empty, keeps
\* every earlier history entry and appends `clear` itself as the newest one,
\* and resets the history cursor to the sentinel; ArrowUp afterwards recalls
\* `clear` first and the commands executed before it next.
ClearStep ==
    (KeyStep("Enter") /\ ~IsBlank(inputValue)
       /\ cmdName(Trimmed(inputValue)) = clearName) =>
       /\ output' = <<>>
       /\ history' = Append(history, Trimmed(inputValue))
       /\ historyIndex' = -1
       /\ UNCHANGED <<currentPath, timers>>

RecallAfterClear ==
    (/\ history /= <<>>
     /\ cmdName(history[Len(history)]) = clearName
     /\ upRun \in 1..Len(history)
     /\ downRun = 0) =>
        /\ output = <<>>
        /\ inputValue = history[Len(history) - upRun + 1]
        /\ upRun = 1 => cmdName(inputValue) = clearName

ClearKeepsEarlierHistory == [][ClearStep]_vars /\ []RecallAfterClear

C9Witness ==
    /\ Len(history) >= 2
    /\ cmdName(history[Len(history)]) = clearName
    /\ cmdName(history[Len(history) - 1]) /= clearName
    /\ upRun = 2
    /\ downRun = 0
    /\ output = <<>>
    /\ inputValue = history[Len(history) - 1]

\* the prefix of an input `cd <prefix>`, empty when the input is no such text
CdPrefix(value) ==
    LET parts == split(Trimmed(value)) IN
    IF Len(parts) >= 2 /\ parts[1] = cdName THEN parts[2] ELSE <<>>

KeysStartingWith(prefix) ==
    {k \in PageKeySet : startsWith(k, toLowerCase(prefix))}

\* C10: Tab on `cd <prefix>` with a non-empty prefix that exactly one of the
\* 12 route-table keys starts with (lowercased) rewrites the field to
\* `cd <that key>` and leaves the log, the history, the history cursor and
\* currentPath unchanged.
TabCompletesSingleMatch ==
    [][(KeyStep("Tab") /\ CdPrefix(inputValue) /= <<>>
          /\ Cardinality(KeysStartingWith(CdPrefix(inputValue))) = 1) =>
          /\ \E k \in KeysStartingWith(CdPrefix(inputValue)) :
                inputValue' = <<"c","d"," ">> \o k
          /\ UNCHANGED <<output, history, historyIndex, currentPath>>]_vars

C10Witness ==
    /\ lastKey = "Tab"
    /\ CdPrefix(lastValue) = <<"H","o","m","e">>
    /\ inputValue = <<"c","d"," ">> \o home
    /\ output = welcomeLines

\* the route-table keys the prefix starts, in route-table order
MatchesInOrder(prefix) ==
    SelectSeq(pageKeys, LAMBDA k : k \in KeysStartingWith(prefix))

\* C11: Tab on `cd <prefix>` with a non-empty prefix that two or more
\* route-table keys start with appends exactly one output line, the matching
\* keys in route-table order joined by two spaces, and leaves the input
\* field, the history and the history cursor unchanged.
TabListsSeveralMatches ==
    [][(KeyStep("Tab") /\ CdPrefix(inputValue) /= <<>>
          /\ Cardinality(KeysStartingWith(CdPrefix(inputValue))) >= 2) =>
          /\ output' = Append(output,
                 [text |-> join(MatchesInOrder(CdPrefix(inputValue)), <<" ", " ">>),
                  className |-> ""])
          /\ UNCHANGED <<inputValue, history, historyIndex>>]_vars

C11Witness ==
    /\ lastKey = "Tab"
    /\ lastValue = <<"c","d"," ","t">>
    /\ inputValue = lastValue
    /\ Len(output) = Len(welcomeLines) + 1
    /\ output[Len(output)].text =
          tools \o <<" ", " ">> \o templates \o <<" ", " ">> \o terms


\* the input is the command `cd` alone, whitespace around it aside
IsBareCd(value) == Trimmed(value) = cdName

\* C12 as stated: Tab on `cd` with no argument emits the joined match list
\* as an output line and leaves the input field untouched.
TabOnBareCdListsMatches ==
    [][(KeyStep("Tab") /\ IsBareCd(inputValue)) =>
          /\ output' = Append(output,
                 [text |-> join(pageKeys, <<" ", " ">>), className |-> ""])
          /\ inputValue' = inputValue]_vars

\* C12 amended: Tab on `cd` with no argument emits no output line and
\* leaves the input field, the history and the history cursor untouched.
TabOnBareCdDoesNothing ==
    [][(KeyStep("Tab") /\ IsBareCd(inputValue)) =>
          UNCHANGED <<output, inputValue, history, historyIndex>>]_vars

C12Witness ==
    /\ lastKey = "Tab"
    /\ lastValue = cdName
    /\ inputValue = cdName
    /\ output = welcomeLines


IsPrefixOf(a, b) == Len(a) <= Len(b) /\ SubSeq(b, 1, Len(a)) = a

\* C13: the history is append-only: in every step the previous history is
\* a prefix of the new one; it grows by exactly one entry on an Enter with
\* non-empty trimmed input and by nothing on every other event; every entry
\* is a non-empty string without leading or trailing whitespace.
HistoryGrowth ==
    /\ IsPrefixOf(history, history')
    /\ Len(history') = Len(history) +
          (IF KeyStep("Enter") /\ ~IsBlank(inputValue) THEN 1 ELSE 0)

HistoryEntriesTrimmed ==
    \A i \in 1..Len(history) :
        /\ history[i] /= <<>>
        /\ history[i][1] \notin Whitespace
        /\ history[i][Len(history[i])] \notin Whitespace

HistoryAppendOnly == [][HistoryGrowth]_vars /\ []HistoryEntriesTrimmed

C13Witness ==
    /\ Len(history) >= 3
    /\ lastKey = "Enter"
    /\ lastValue /= Trimmed(lastValue)
    /\ history[Len(history)] = Trimmed(lastValue)
    /\ history[1] /= history[2]


\* the input is a `cd` command without arguments: no space follows the name
IsCdWithoutArgs(value) == toLowerCase(Trimmed(value)) = cdName

\* C14: `cd` with no arguments emits exactly the line `~` after the echo,
\* sets currentPath to the root and schedules no navigation, from every
\* reachable state.
BareCdGoesToRoot ==
    [][(KeyStep("Enter") /\ IsCdWithoutArgs(inputValue)) =>
          /\ output' = EchoAppended \o Plain(<< <<"~">> >>)
          /\ currentPath' = <<"/">>
          /\ timers' = timers]_vars

C14Witness ==
    /\ lastKey = "Enter"
    /\ lastValue = cdName
    /\ Len(output) = Len(welcomeLines) + 2
    /\ output[Len(output)].text = <<"~">>
    /\ currentPath = <<"/">>
    /\ timers = <<>>


lsName == <<"l","s">>

\* the destinations the route table maps its aliases to
Destinations == {pagesLookup(k) : k \in PageKeySet}

AliasesOf(dest) == {k \in PageKeySet : pagesLookup(k) = dest}

\* the aliases other than home and index, in route-table order
AliasesListed == SelectSeq(pageKeys, LAMBDA k : k \notin {home, index})

\* 12 aliases; home and index, and only they, share a destination, the root
TwelveAliasesTwoForRoot ==
    /\ Len(pageKeys) = 12
    /\ Cardinality(PageKeySet) = 12
    /\ AliasesOf(<<"/">>) = {home, index}
    /\ \A d \in Destinations \ {<<"/">>} : Cardinality(AliasesOf(d)) = 1

\* the listing `ls` emits after its echo
LsStep ==
    (KeyStep("Enter") /\ cmdName(Trimmed(inputValue)) = lsName) =>
        output' = EchoAppended \o Plain(<< join(AliasesListed, <<" ", " ">>) >>)

\* C15 as stated: the route table has 12 aliases for 10 distinct
\* destinations, home and index alone sharing the root, and `ls` lists
\* exactly the aliases other than home and index.
RouteTableTenDestinations ==
    /\ [](TwelveAliasesTwoForRoot /\ Cardinality(Destinations) = 10)
    /\ [][LsStep]_vars

\* C15 amended: the route table has 12 aliases for 11 distinct
\* destinations, home and index alone sharing the root, and `ls` lists
\* exactly the aliases other than home and index.
RouteTableElevenDestinations ==
    /\ [](TwelveAliasesTwoForRoot /\ Cardinality(Destinations) = 11)
    /\ [][LsStep]_vars

C15Witness ==
    /\ lastKey = "Enter"
    /\ lastValue = lsName
    /\ Len(output) = Len(welcomeLines) + 2
    /\ output[Len(output)].text = join(AliasesListed, <<" ", " ">>)
    /\ \A i \in 1..Len(AliasesListed) : AliasesListed[i] \notin {home, index}
    /\ Len(AliasesListed) = 10


catName == <<"c","a","t">>

KnownCommandNames ==
    {cdName, lsName, <<"h","e","l","p">>, clearName, <<"p","w","d">>, catName}

\* the lines an unrecognized input is answered with
ErrorLinesFor(command) ==
    IF cmdName(command) = catName
    THEN IF Len(cmdArgs(command)) = 0
         THEN << <<"cat: missing file operand">>, <<"Try: cat <filename>">> >>
         ELSE << <<"cat: ">> \o cmdArgs(command)[1]
                 \o <<": No such file or directory">> >>
    ELSE << <<"Command not found: ">> \o cmdName(command)
            \o <<". Type \"help\" for available commands.">> >>

IsUnrecognized(command) ==
    command /= <<>> /\ (cmdName(command) = catName
                        \/ cmdName(command) \notin KnownCommandNames)

\* C16: an unknown command name is answered with `Command not found:
\* <lowercased name>. ...`, `cat` without arguments with the missing-operand
\* line and then the usage hint, `cat <file> ...` with the not-found line of
\* its first argument only; the lines are added within the Enter handler, no
\* navigation is scheduled, currentPath is unchanged and the session goes on
\* handling key events.
UnrecognizedInputAnswered ==
    [][(KeyStep("Enter") /\ IsUnrecognized(Trimmed(inputValue))) =>
          /\ output' = EchoAppended \o Plain(ErrorLinesFor(Trimmed(inputValue)))
          /\ UNCHANGED <<timers, fired, currentPath>>
          /\ Loaded']_vars

C16Witness ==
    /\ lastKey = "Enter"
    /\ lastValue = <<"c","a","t"," ","a"," ","b">>
    /\ Loaded
    /\ timers = <<>>
    /\ output[Len(output)].text = <<"cat: ", "a", ": No such file or directory">>


\* C17: Tab changes nothing unless the first token of the trimmed input is
\* exactly `cd` and a non-empty argument prefix follows it that some
\* route-table key starts with: the input field, the output log, the
\* history, the history cursor and currentPath all stay as they are.
TabElsewhereChangesNothing ==
    [][(KeyStep("Tab")
          /\ (CdPrefix(inputValue) = <<>>
              \/ KeysStartingWith(CdPrefix(inputValue)) = {})) =>
          UNCHANGED <<inputValue, output, history, historyIndex,
                      currentPath>>]_vars

C17Witness ==
    /\ lastKey = "Tab"
    /\ lastValue = <<"C","D"," ","P","r","o">>
    /\ inputValue = lastValue
    /\ output = welcomeLines


pwdName == <<"p","w","d">>

\* the line `pwd` emits after its echo
PwdStep ==
    (KeyStep("Enter") /\ cmdName(Trimmed(inputValue)) = pwdName) =>
        output' = EchoAppended \o Plain(<< <<"/">> >>)

\* only a `cd` without arguments assigns currentPath
PathStep ==
    currentPath' /= currentPath =>
        KeyStep("Enter") /\ IsCdWithoutArgs(inputValue)

\* C18: no operation other than `cd` without arguments changes
\* currentPath, and that one sets it to the root; so currentPath is `/` in
\* every reachable state and `pwd` always emits `/`, also after any number
\* of `cd <known-page>` commands.
CurrentPathAlwaysRoot ==
    /\ [](currentPath = <<"/">>)
    /\ [][PathStep /\ PwdStep]_vars

C18Witness ==
    /\ Len(history) >= 3
    /\ IsKnownCd(history[1])
    /\ IsKnownCd(history[2])
    /\ cdTarget(history[1]) /= cdTarget(history[2])
    /\ lastKey = "Enter"
    /\ cmdName(Trimmed(lastValue)) = pwdName
    /\ output[Len(output)].text = <<"/">>


\* what an arrow key writes into the field is an entry at an index in range
ArrowWritesEntry ==
    ((KeyStep("ArrowUp") \/ KeyStep("ArrowDown")) /\ inputValue' /= inputValue) =>
        \/ KeyStep("ArrowDown") /\ historyIndex' = -1 /\ inputValue' = <<>>
        \/ /\ historyIndex' \in 0..Len(history) - 1
           /\ inputValue' = history[historyIndex' + 1]

\* C19: after every key handler historyIndex is -1 or an index in
\* 0..history.length-1, never history.length, and whatever ArrowUp or
\* ArrowDown writes into the input field is the history entry at an index in
\* range, never an undefined one.
HistoryIndexBelowLength ==
    /\ [](historyIndex \in -1..Len(history) - 1)
    /\ [][ArrowWritesEntry]_vars

C19Witness ==
    /\ Len(history) >= 3
    /\ historyIndex = Len(history) - 1
    /\ upRun >= Len(history)
    /\ downRun = Len(history) - 1
    /\ inputValue = history[Len(history)]


\* the last event was a Tab that completed its field to `cd <match>`
TabJustCompleted ==
    /\ lastKey = "Tab"
    /\ CdPrefix(lastValue) /= <<>>
    /\ Cardinality(KeysStartingWith(CdPrefix(lastValue))) = 1

TheMatch == CHOOSE k \in KeysStartingWith(CdPrefix(lastValue)) : TRUE

\* C20: when Tab has rewritten the field to `cd <match>`, the Enter pressed
\* next takes the navigation branch of cd: it emits `Navigating to
\* <match>...` and schedules the navigation of <match>; it never answers
\* `cd: no such page`.
CompletionThenEnterNavigates ==
    [][(TabJustCompleted /\ KeyStep("Enter")) =>
          /\ output' = EchoAppended \o
                 Plain(<< <<"Navigating to ">> \o TheMatch \o <<"...">> >>)
          /\ timers' = Append(timers, TheMatch)]_vars

C20Witness ==
    /\ lastKey = "Enter"
    /\ lastValue = <<"c","d"," ">> \o projects
    /\ history = <<lastValue>>
    /\ timers = <<projects>>
    /\ output[Len(output)].text = <<"Navigating to ">> \o projects \o <<"...">>

====
